---- MODULE Spec2Model ----
(***************************************************************************)
(* A model of the generic HTTP CRUD helper: the mutex-guarded in-memory    *)
(* Store (crud_helper.go, lines 23-108) and the request dispatcher         *)
(* handleRequest (lines 110-183), served for the model type Item           *)
(* (main.go, lines 18-32) by one goroutine per request.                    *)
(***************************************************************************)
EXTENDS Integers, Sequences, FiniteSets, TLC

\* ------------------------------------------------------------------ bounds
\* Number of request-handling goroutines that run concurrently.
NThreads == 2
\* Number of POST requests that reach Store.Create in one behaviour.
MaxCreates == 2

Threads == 1..NThreads

\* ------------------------------------------------------- program constants
StatusOK == 200
StatusCreated == 201
StatusNoContent == 204
StatusBadRequest == 400
StatusNotFound == 404
StatusMethodNotAllowed == 405
\* No header written: the handler panicked before any write, and net/http
\* recovers the panic and closes the connection without a response.
NoStatus == 0
\* The zero value of an int local.
Nil == 0

JSONType == "application/json"
TextType == "text/plain; charset=utf-8"

\* ----------------------------------------------------------------- types
\* The model type handed to handleRequest: reflect.TypeOf(Item{}).
ModelType == "Item"
\* reflect.New(T) yields a value of type *T.
PtrTo(T) == "*" \o T
\* Go assignability between the two non-interface types that occur here:
\* identical types only.
AssignableTo(src, dst) == src = dst
\* Dynamic type of newItem / updatedItem, the values put into the map.
ItemType == PtrTo(ModelType)
\* Type of reflect.ValueOf(result).Elem() in Get, for the handler's result.
GetDestType == ModelType
\* Element type of the slice handed to GetAll by the handler.
SliceElemType == ModelType

\* The zero Item: ID 0, Title "", Done false.
ZeroItem == [ID |-> 0, Title |-> "", Done |-> FALSE]

\* ------------------------------------------------------------ conversions
Digits == <<"0", "1", "2", "3", "4", "5", "6", "7", "8", "9">>
IsDigit(c) == \E i \in 1..10 : Digits[i] = c
DigitVal(c) == (CHOOSE i \in 1..10 : Digits[i] = c) - 1

RECURSIVE DecVal(_)
DecVal(s) == IF s = <<>> THEN 0
             ELSE 10 * DecVal(SubSeq(s, 1, Len(s) - 1)) + DigitVal(s[Len(s)])

\* strconv.Atoi on a string given as its sequence of characters: an optional
\* sign, then at least one decimal digit and nothing else.
Atoi(s) ==
  LET signed == s # <<>> /\ s[1] \in {"+", "-"}
      body   == IF signed THEN Tail(s) ELSE s
      ok     == body # <<>> /\ \A i \in 1..Len(body) : IsDigit(body[i])
  IN  IF ~ok THEN [err |-> TRUE, val |-> 0]
      ELSE [err |-> FALSE,
            val |-> IF signed /\ s[1] = "-" THEN 0 - DecVal(body) ELSE DecVal(body)]

\* r.URL.Query().Get("id"): the first value of the parameter, "" when absent.
QueryGet(q) == IF q.has THEN q.val ELSE <<>>

\* json.Decoder.Decode into a fresh *Item: a syntax or type error is an
\* error; a member missing from the object leaves the field at its zero.
Decode(b) ==
  IF ~b.ok THEN [err |-> TRUE, val |-> ZeroItem]
  ELSE [err |-> FALSE,
        val |-> [ID    |-> IF "id" \in DOMAIN b.obj THEN b.obj.id ELSE 0,
                 Title |-> IF "title" \in DOMAIN b.obj THEN b.obj.title ELSE "",
                 Done  |-> IF "done" \in DOMAIN b.obj THEN b.obj.done ELSE FALSE]]

\* json.Encoder.Encode of an Item (through the pointer): all three members.
EncodeItem(rec) ==
  [kind |-> "object", id |-> rec.ID, title |-> rec.Title, done |-> rec.Done]

\* json.Encoder.Encode of the *[]Item result: a nil slice encodes as null,
\* any other slice as an array.
EncodeSlice(sl) ==
  IF sl.isNil THEN [kind |-> "null"]
  ELSE [kind |-> "array",
        elems |-> [i \in 1..Len(sl.elems) |-> EncodeItem(sl.elems[i])]]

\* --------------------------------------------------------- response writer
NewResponse == [status |-> NoStatus, ctype |-> "", body |-> [kind |-> "none"]]
\* w.Header().Set("Content-Type", v): no effect once the header is written.
SetContentType(w, v) == IF w.status = NoStatus THEN [w EXCEPT !.ctype = v] ELSE w
\* w.WriteHeader(code).
WriteHeader(w, code) == IF w.status = NoStatus THEN [w EXCEPT !.status = code] ELSE w
\* w.Write: the first write sends 200 if no header was written.
WriteBody(w, b) == [WriteHeader(w, StatusOK) EXCEPT !.body = b]
\* http.Error(w, msg, code).
HttpError(w, msg, code) ==
  WriteBody(WriteHeader(SetContentType(w, TextType), code),
            [kind |-> "text", msg |-> msg])

\* ----------------------------------------------------------------- inputs
Methods == {"POST", "GET", "PUT", "DELETE", "PATCH"}
\* The id query parameter: absent, or present with a value.
IdValues ==
  {<<>>, <<"x">>, <<"1", "x">>, <<"-">>, <<"-", "1">>, <<"+", "1">>, <<"0", "2">>}
    \cup {<<Digits[n + 1]>> : n \in 0..MaxCreates}
Queries == {[has |-> FALSE, val |-> <<>>]} \cup {[has |-> TRUE, val |-> v] : v \in IdValues}
\* Request bodies: one that does not decode, one without an id member, and a
\* full record whose id member is 2.
BadBody == [ok |-> FALSE, obj |-> [x |-> 0]]
Bodies ==
  {BadBody,
   [ok |-> TRUE, obj |-> [title |-> "a"]],
   [ok |-> TRUE, obj |-> [id |-> 2, title |-> "b", done |-> TRUE]]}

\* ------------------------------------------------------------------ state
VARIABLES
  data,       \* Store.data: id -> the Item that the stored pointer refers to
  nextID,     \* Store.nextID
  itemMux,    \* Store.itemMux: TRUE when locked
  pc,         \* where each goroutine is in handleRequest / the Store method
  method,     \* r.Method of the request being served
  id,         \* the handler's parsed id, or Create's local id
  item,       \* newItem / updatedItem: the pointer to the Item the request allocated
  ret,        \* the bool returned by Get / Update / Delete
  result,     \* the handler's result value for Get / GetAll
  panicking,  \* a panic is unwinding the goroutine
  resp,       \* what was written to the http.ResponseWriter
  storeOp,    \* history: the Store method this request called, "none" if none
  mutated,    \* history: a step of this request changed the mapping or nextID
  issued,     \* history: the IDs returned by Create, in order of return
  deleted,    \* history: the ids removed by a successful Delete
  lastWrite,  \* history: per id in the map, the value last written for it,
              \* and by which of Create and Update
  sent,       \* history: the Item decoded from this request's body
  idArg,      \* history: what this request's id parameter was
  seq,        \* history: the store of a run that performs each Store call
              \* in one step, at the moment the call takes the lock
  expect      \* history: what that run's call returns to this goroutine

storeVars == <<data, nextID, itemMux>>
histVars  == <<storeOp, mutated, issued, deleted, lastWrite>>
reqVars   == <<sent, idArg>>
seqVars   == <<seq, expect>>
vars == <<data, nextID, itemMux, pc, method, id, item, ret, result,
          panicking, resp, storeOp, mutated, issued, deleted, lastWrite,
          sent, idArg, seq, expect>>

NoResult == [kind |-> "none", isNil |-> TRUE, val |-> ZeroItem, elems |-> <<>>]
\* reflect.New(modelType): a pointer to a zero Item.
NewStruct == [kind |-> "struct", isNil |-> FALSE, val |-> ZeroItem, elems |-> <<>>]
\* reflect.New(reflect.SliceOf(modelType)): a pointer to a nil slice.
NewSlice == [kind |-> "slice", isNil |-> TRUE, val |-> ZeroItem, elems |-> <<>>]

\* --------------------------------------------------------------- pointers
\* Every Item is allocated by one handler (reflect.New) and is put into the
\* map by that request at most, so an Item is referred to by its handler's
\* local, by one map entry, or by both. A pointer is written as the place
\* of the Item it refers to: an Item only this goroutine refers to ("own",
\* with its value), or the Item that s.data[key] refers to ("map").
NilPtr == [at |-> "nil", key |-> Nil, val |-> ZeroItem]
\* reflect.New(modelType) with the value v decoded into it.
NewPtr(v) == [at |-> "own", key |-> Nil, val |-> v]
MapPtr(k) == [at |-> "map", key |-> k, val |-> ZeroItem]
\* The Item p refers to.
Load(p) == IF p.at = "map" THEN data[p.key] ELSE p.val
\* The handlers' pointers after goroutine t made s.data[k] refer to its own
\* Item: whoever held the Item that entry k referred to before keeps it.
AfterStore(t, k) ==
  [u \in DOMAIN item |->
     IF u = t THEN MapPtr(k)
     ELSE IF item[u].at = "map" /\ item[u].key = k THEN NewPtr(data[k])
     ELSE item[u]]
\* The handlers' pointers after entry k left the map.
AfterRemove(k) ==
  [u \in DOMAIN item |->
     IF item[u].at = "map" /\ item[u].key = k THEN NewPtr(data[k]) ELSE item[u]]

\* History: whether this step of goroutine t changed the mapping or nextID.
Touch(t) ==
  mutated' = [mutated EXCEPT ![t] = @ \/ nextID' # nextID \/ data' # data]

\* No call in progress: nothing expected.
NoExpect == [ret |-> FALSE, panic |-> FALSE, val |-> ZeroItem]

\* Create calls begun so far (returned or in flight); bounds the model.
CreatePcs == {"c_lock", "c_id", "c_inc", "c_store", "c_ret"}
CreatesStarted == Len(issued) + Cardinality({t \in Threads : pc[t] \in CreatePcs})

\* NewStore, and every goroutine before its first request.
Init ==
  /\ data = << >>
  /\ nextID = 1
  /\ itemMux = FALSE
  /\ pc = [t \in Threads |-> "idle"]
  /\ method = [t \in Threads |-> ""]
  /\ id = [t \in Threads |-> Nil]
  /\ item = [t \in Threads |-> NilPtr]
  /\ ret = [t \in Threads |-> FALSE]
  /\ result = [t \in Threads |-> NoResult]
  /\ panicking = [t \in Threads |-> FALSE]
  /\ resp = [t \in Threads |-> NewResponse]
  /\ storeOp = [t \in Threads |-> "none"]
  /\ mutated = [t \in Threads |-> FALSE]
  /\ issued = <<>>
  /\ deleted = {}
  /\ lastWrite = << >>
  /\ sent = [t \in Threads |-> ZeroItem]
  /\ idArg = [t \in Threads |-> "unread"]
  /\ seq = [data |-> << >>, nextID |-> 1]
  /\ expect = [t \in Threads |-> NoExpect]

\* ---------------------------------------------------------------- helpers
Set(f, t, v) == [f EXCEPT ![t] = v]
\* s.data[k] = v
Put(d, k, v) == [x \in DOMAIN d \cup {k} |-> IF x = k THEN v ELSE d[x]]
\* delete(s.data, k)
Remove(d, k) == [x \in DOMAIN d \ {k} |-> d[x]]
\* The orders in which ranging over a map may visit the keys S.
Orders(S) == {o \in [1..Cardinality(S) -> S] : \A i, j \in DOMAIN o : i # j => o[i] # o[j]}

\* ------------------------------------------------ the Store, call by call
\* Each Store method run in one step on the store s = [data, nextID]: what
\* it leaves of the store, and what it returns.
\* Create: lines 44-50.
SeqCreate(s, rec) ==
  [data |-> Put(s.data, s.nextID, [rec EXCEPT !.ID = s.nextID]),
   nextID |-> s.nextID + 1]
ExpectCreate(s, rec) ==
  [ret |-> TRUE, panic |-> FALSE, val |-> [rec EXCEPT !.ID = s.nextID]]
\* Update: lines 86-93.
SeqUpdate(s, k, rec) ==
  IF k \in DOMAIN s.data THEN [s EXCEPT !.data = Put(s.data, k, rec)] ELSE s
\* Delete: lines 101-107.
SeqDelete(s, k) ==
  IF k \in DOMAIN s.data THEN [s EXCEPT !.data = Remove(s.data, k)] ELSE s
\* Update and Delete return whether the id was present.
ExpectFound(s, k) == [ret |-> k \in DOMAIN s.data, panic |-> FALSE, val |-> ZeroItem]
\* Get: lines 58-66; false for an absent id, else the reflect.Set.
ExpectGet(s, k) ==
  IF k \notin DOMAIN s.data THEN [ret |-> FALSE, panic |-> FALSE, val |-> ZeroItem]
  ELSE IF AssignableTo(ItemType, GetDestType)
  THEN [ret |-> TRUE, panic |-> FALSE, val |-> s.data[k]]
  ELSE [ret |-> FALSE, panic |-> TRUE, val |-> ZeroItem]
\* GetAll: lines 75-78; the reflect.Append on the first item, if any.
ExpectGetAll(s) ==
  [ret |-> FALSE,
   panic |-> DOMAIN s.data # {} /\ ~AssignableTo(ItemType, SliceElemType),
   val |-> ZeroItem]

\* s.itemMux.Lock() returns only when the mutex is not held.
CanLockFree == TRUE
CanLock == ~itemMux

\* A goroutine takes up a new request: the locals of handleRequest start
\* anew, and the handler runs up to its call of a Store method (p names the
\* call) or, when it answers at once, to its return (p = "done", w written).
Enter(t, m, q, p, idv, itm, res, op, w) ==
  /\ pc[t] \in {"idle", "done"}
  /\ pc' = Set(pc, t, p)
  /\ method' = Set(method, t, m)
  /\ id' = Set(id, t, idv)
  /\ item' = Set(item, t, itm)
  /\ ret' = Set(ret, t, FALSE)
  /\ result' = Set(result, t, res)
  /\ panicking' = Set(panicking, t, FALSE)
  /\ resp' = Set(resp, t, w)
  /\ storeOp' = Set(storeOp, t, op)
  /\ mutated' = Set(mutated, t, FALSE)
  /\ sent' = Set(sent, t, itm.val)
  /\ idArg' = Set(idArg, t, q)
  /\ UNCHANGED seqVars

\* The handler answers without calling the Store.
Reject(t, m, q, msg, code) ==
  Enter(t, m, q, "done", Nil, NilPtr, NoResult, "none",
        HttpError(NewResponse, msg, code))

\* handleRequest returns having written w; its locals go out of scope.
Finish(t, w) ==
  /\ pc' = Set(pc, t, "done")
  /\ resp' = Set(resp, t, w)
  /\ id' = Set(id, t, Nil)
  /\ item' = Set(item, t, NilPtr)
  /\ ret' = Set(ret, t, FALSE)
  /\ panicking' = Set(panicking, t, FALSE)
  /\ UNCHANGED <<method, result, storeOp>>

\* ------------------------------------------------- handleRequest: dispatch
\* What the handler gets from the request: the id parameter read and parsed,
\* and the body decoded, over every query and body.
IdArgs ==
  {[has |-> q.has, empty |-> QueryGet(q) = <<>>, a |-> Atoi(QueryGet(q))] : q \in Queries}
\* History: the id parameter as the request carried it.
Class(q) ==
  IF ~q.has THEN "absent"
  ELSE IF q.empty THEN "empty"
  ELSE IF q.a.err THEN "malformed"
  ELSE IF q.a.val <= 0 THEN "nonpos"
  ELSE "pos"
Payloads == {Decode(b) : b \in Bodies}

\* case http.MethodPost: decode the body into a fresh Item, call Create.
HandlePost(t) ==
  \E d \in Payloads :
    /\ IF d.err
       THEN Reject(t, "POST", "unread", "Invalid request payload", StatusBadRequest)
       ELSE /\ CreatesStarted < MaxCreates
            /\ Enter(t, "POST", "unread", "c_lock", Nil, NewPtr(d.val), NoResult, "Create",
                     NewResponse)
    /\ UNCHANGED <<storeVars, issued, deleted, lastWrite>>

\* case http.MethodGet: no id (or an empty one) calls GetAll; otherwise the
\* id is parsed and Get is called.
HandleGet(t) ==
  \E q \in IdArgs :
    /\ IF q.empty
       THEN Enter(t, "GET", Class(q), "ga_lock", Nil, NilPtr, NewSlice, "GetAll", NewResponse)
       ELSE IF q.a.err
       THEN Reject(t, "GET", Class(q), "Invalid ID", StatusBadRequest)
       ELSE Enter(t, "GET", Class(q), "g_lock", q.a.val, NilPtr, NewStruct, "Get", NewResponse)
    /\ UNCHANGED <<storeVars, issued, deleted, lastWrite>>

\* case http.MethodPut: parse the id, decode the body into a fresh Item,
\* call Update.
HandlePut(t) ==
  \E q \in IdArgs :
    /\ IF q.a.err
       THEN Reject(t, "PUT", Class(q), "Invalid ID", StatusBadRequest)
       ELSE \E d \in Payloads :
              IF d.err
              THEN Reject(t, "PUT", Class(q), "Invalid request payload", StatusBadRequest)
              ELSE Enter(t, "PUT", Class(q), "u_lock", q.a.val, NewPtr(d.val), NoResult,
                         "Update", NewResponse)
    /\ UNCHANGED <<storeVars, issued, deleted, lastWrite>>

\* case http.MethodDelete: parse the id, call Delete.
HandleDelete(t) ==
  \E q \in IdArgs :
    /\ IF q.a.err
       THEN Reject(t, "DELETE", Class(q), "Invalid ID", StatusBadRequest)
       ELSE Enter(t, "DELETE", Class(q), "d_lock", q.a.val, NilPtr, NoResult, "Delete",
                  NewResponse)
    /\ UNCHANGED <<storeVars, issued, deleted, lastWrite>>

\* default: any other method.
HandleOtherBadRequest(t) ==
  \E m \in Methods \ {"POST", "GET", "PUT", "DELETE"} :
    /\ Reject(t, m, "unread", "Unsupported method", StatusBadRequest)
    /\ UNCHANGED <<storeVars, issued, deleted, lastWrite>>

HandleOther(t) ==
  \E m \in Methods \ {"POST", "GET", "PUT", "DELETE"} :
    /\ Reject(t, m, "unread", "Unsupported method", StatusMethodNotAllowed)
    /\ UNCHANGED <<storeVars, issued, deleted, lastWrite>>

\* ----------------------------------------------------------- Store.Create
\* s.itemMux.Lock()
CreateLock(t) ==
  /\ pc[t] = "c_lock"
  /\ seq' = SeqCreate(seq, Load(item[t]))
  /\ expect' = Set(expect, t, ExpectCreate(seq, Load(item[t])))
  /\ UNCHANGED reqVars
  /\ CanLock
  /\ itemMux' = TRUE
  /\ pc' = Set(pc, t, "c_id")
  /\ UNCHANGED <<data, nextID, method, id, item, ret, result, panicking, resp,
                 histVars>>

\* The ID Create hands out.
FreshIDByCount == Cardinality(DOMAIN data) + 1
FreshID == nextID

\* id := s.nextID
CreateAssign(t) ==
  /\ pc[t] = "c_id"
  /\ UNCHANGED <<reqVars, seqVars>>
  /\ id' = Set(id, t, FreshID)
  /\ pc' = Set(pc, t, "c_inc")
  /\ UNCHANGED <<storeVars, method, item, ret, result, panicking, resp, histVars>>

\* A Create that leaves the counter where it was.
CreateIncSkip(t) ==
  /\ pc[t] = "c_inc"
  /\ UNCHANGED <<reqVars, seqVars>>
  /\ nextID' = nextID
  /\ item' = [item EXCEPT ![t].val.ID = id[t]]
  /\ pc' = Set(pc, t, "c_store")
  /\ UNCHANGED <<data, itemMux, method, id, ret, result, panicking, resp,
                 storeOp, issued, deleted, lastWrite>>
  /\ Touch(t)

\* A Create that leaves the ID field of the new Item as the body gave it.
CreateIncNoSetID(t) ==
  /\ pc[t] = "c_inc"
  /\ UNCHANGED <<reqVars, seqVars>>
  /\ nextID' = nextID + 1
  /\ item' = item
  /\ pc' = Set(pc, t, "c_store")
  /\ UNCHANGED <<data, itemMux, method, id, ret, result, panicking, resp,
                 storeOp, issued, deleted, lastWrite>>
  /\ Touch(t)

\* s.nextID++, and the ID field of the new Item set through reflection.
CreateInc(t) ==
  /\ pc[t] = "c_inc"
  /\ UNCHANGED <<reqVars, seqVars>>
  /\ nextID' = nextID + 1
  /\ item' = [item EXCEPT ![t].val.ID = id[t]]
  /\ pc' = Set(pc, t, "c_store")
  /\ UNCHANGED <<data, itemMux, method, id, ret, result, panicking, resp,
                 storeOp, issued, deleted, lastWrite>>
  /\ Touch(t)

\* s.data[id] = item
CreateStore(t) ==
  /\ pc[t] = "c_store"
  /\ UNCHANGED <<reqVars, seqVars>>
  /\ data' = Put(data, id[t], Load(item[t]))
  /\ item' = AfterStore(t, id[t])
  /\ lastWrite' = Put(lastWrite, id[t], [by |-> "Create", val |-> Load(item[t])])
  /\ pc' = Set(pc, t, "c_ret")
  /\ UNCHANGED <<nextID, itemMux, method, id, ret, result, panicking, resp,
                 storeOp, issued, deleted>>
  /\ Touch(t)

\* return item, with the deferred Unlock.
CreateReturn(t) ==
  /\ pc[t] = "c_ret"
  /\ expect' = Set(expect, t, NoExpect)
  /\ UNCHANGED <<seq, reqVars>>
  /\ itemMux' = FALSE
  /\ issued' = Append(issued, Load(item[t]).ID)
  /\ pc' = Set(pc, t, "post_respond")
  /\ UNCHANGED <<data, nextID, method, id, item, ret, result, panicking, resp,
                 storeOp, mutated, deleted, lastWrite>>

\* w.WriteHeader(http.StatusCreated); json.NewEncoder(w).Encode(createdItem)
PostRespond(t) ==
  /\ pc[t] = "post_respond"
  /\ UNCHANGED <<reqVars, seqVars>>
  /\ Finish(t, WriteBody(WriteHeader(NewResponse, StatusCreated),
                         EncodeItem(Load(item[t]))))
  /\ UNCHANGED <<storeVars, mutated, issued, deleted, lastWrite>>

\* -------------------------------------------------------------- Store.Get
\* A Get under a read lock: it waits for no one.
GetLockShared(t) ==
  /\ pc[t] = "g_lock"
  /\ seq' = seq
  /\ expect' = Set(expect, t, ExpectGet(seq, id[t]))
  /\ UNCHANGED reqVars
  /\ itemMux' = TRUE
  /\ pc' = Set(pc, t, "g_body")
  /\ UNCHANGED <<data, nextID, method, id, item, ret, result, panicking, resp,
                 histVars>>

GetLock(t) ==
  /\ pc[t] = "g_lock"
  /\ seq' = seq
  /\ expect' = Set(expect, t, ExpectGet(seq, id[t]))
  /\ UNCHANGED reqVars
  /\ CanLock
  /\ itemMux' = TRUE
  /\ pc' = Set(pc, t, "g_body")
  /\ UNCHANGED <<data, nextID, method, id, item, ret, result, panicking, resp,
                 histVars>>

\* A Get that leaves an entry behind for an id it did not find.
GetBodyInsert(t) ==
  /\ pc[t] = "g_body"
  /\ UNCHANGED <<reqVars, seqVars>>
  /\ IF id[t] \notin DOMAIN data
     THEN /\ ret' = Set(ret, t, FALSE)
          /\ data' = Put(data, id[t], ZeroItem)
          /\ UNCHANGED <<result, panicking>>
     ELSE /\ panicking' = Set(panicking, t, TRUE)
          /\ UNCHANGED <<ret, result, data>>
  /\ pc' = Set(pc, t, "g_ret")
  /\ UNCHANGED <<nextID, itemMux, method, id, item, resp, storeOp, issued,
                 deleted, lastWrite>>
  /\ Touch(t)

\* item, exists := s.data[id]; an absent id returns false. Otherwise
\* reflect.ValueOf(result).Elem().Set(reflect.ValueOf(item)): Set panics
\* unless the stored value is assignable to what result points to, and
\* else makes result hold the stored record.
GetBody(t) ==
  /\ pc[t] = "g_body"
  /\ UNCHANGED <<reqVars, seqVars>>
  /\ IF id[t] \notin DOMAIN data
     THEN /\ ret' = Set(ret, t, FALSE)
          /\ UNCHANGED <<result, panicking>>
     ELSE IF AssignableTo(ItemType, GetDestType)
     THEN /\ result' = Set(result, t, [result[t] EXCEPT !.val = data[id[t]]])
          /\ ret' = Set(ret, t, TRUE)
          /\ UNCHANGED panicking
     ELSE /\ panicking' = Set(panicking, t, TRUE)
          /\ UNCHANGED <<ret, result>>
  /\ pc' = Set(pc, t, "g_ret")
  /\ UNCHANGED <<storeVars, method, id, item, resp, storeOp, issued, deleted,
                 lastWrite>>
  /\ Touch(t)

\* The deferred Unlock, then the handler's answer: the record, 404, or,
\* when Get panicked, no answer at all.
GetReturn(t) ==
  /\ pc[t] = "g_ret"
  /\ expect' = Set(expect, t, NoExpect)
  /\ UNCHANGED <<seq, reqVars>>
  /\ itemMux' = FALSE
  /\ Finish(t, IF panicking[t] THEN NewResponse
               ELSE IF ret[t]
               THEN WriteBody(SetContentType(NewResponse, JSONType),
                              EncodeItem(result[t].val))
               ELSE HttpError(NewResponse, "Item not found", StatusNotFound))
  /\ UNCHANGED <<data, nextID, mutated, issued, deleted, lastWrite>>

\* ----------------------------------------------------------- Store.GetAll
GetAllLock(t) ==
  /\ pc[t] = "ga_lock"
  /\ seq' = seq
  /\ expect' = Set(expect, t, ExpectGetAll(seq))
  /\ UNCHANGED reqVars
  /\ CanLock
  /\ itemMux' = TRUE
  /\ pc' = Set(pc, t, "ga_body")
  /\ UNCHANGED <<data, nextID, method, id, item, ret, result, panicking, resp,
                 histVars>>

\* for _, item := range s.data { itemSlice.Set(reflect.Append(itemSlice,
\* reflect.ValueOf(item))) }: over an empty map the slice stays nil;
\* otherwise Append panics on the first item unless the stored value is
\* assignable to the slice's element type, and else the slice takes every
\* record, in the order the range visits them.
GetAllBody(t) ==
  /\ pc[t] = "ga_body"
  /\ UNCHANGED <<reqVars, seqVars>>
  /\ IF DOMAIN data = {}
     THEN UNCHANGED <<result, panicking>>
     ELSE IF AssignableTo(ItemType, SliceElemType)
     THEN /\ \E o \in Orders(DOMAIN data) :
               result' = Set(result, t,
                             [result[t] EXCEPT !.isNil = FALSE,
                                               !.elems = [i \in DOMAIN o |-> data[o[i]]]])
          /\ UNCHANGED panicking
     ELSE /\ panicking' = Set(panicking, t, TRUE)
          /\ UNCHANGED result
  /\ pc' = Set(pc, t, "ga_ret")
  /\ UNCHANGED <<storeVars, method, id, item, ret, resp, storeOp, issued, deleted,
                 lastWrite>>
  /\ Touch(t)

\* The deferred Unlock, then the handler's answer: the encoded slice, or,
\* when GetAll panicked, no answer at all.
GetAllReturn(t) ==
  /\ pc[t] = "ga_ret"
  /\ expect' = Set(expect, t, NoExpect)
  /\ UNCHANGED <<seq, reqVars>>
  /\ itemMux' = FALSE
  /\ Finish(t, IF panicking[t] THEN NewResponse
               ELSE WriteBody(SetContentType(NewResponse, JSONType),
                              EncodeSlice(result[t])))
  /\ UNCHANGED <<data, nextID, mutated, issued, deleted, lastWrite>>

\* ----------------------------------------------------------- Store.Update
\* An Update that takes the mutex without waiting for it.
UpdateLockFree(t) ==
  /\ pc[t] = "u_lock"
  /\ seq' = SeqUpdate(seq, id[t], Load(item[t]))
  /\ expect' = Set(expect, t, ExpectFound(seq, id[t]))
  /\ UNCHANGED reqVars
  /\ itemMux' = TRUE
  /\ pc' = Set(pc, t, "u_look")
  /\ UNCHANGED <<data, nextID, method, id, item, ret, result, panicking, resp,
                 histVars>>

UpdateLock(t) ==
  /\ pc[t] = "u_lock"
  /\ seq' = SeqUpdate(seq, id[t], Load(item[t]))
  /\ expect' = Set(expect, t, ExpectFound(seq, id[t]))
  /\ UNCHANGED reqVars
  /\ CanLock
  /\ itemMux' = TRUE
  /\ pc' = Set(pc, t, "u_look")
  /\ UNCHANGED <<data, nextID, method, id, item, ret, result, panicking, resp,
                 histVars>>

UpdateLookupUpsert(t) ==
  /\ pc[t] = "u_look"
  /\ UNCHANGED <<reqVars, seqVars>>
  /\ pc' = Set(pc, t, "u_ret")
  /\ ret' = Set(ret, t, id[t] \in DOMAIN data)
  /\ data' = Put(data, id[t], Load(item[t]))
  /\ item' = AfterStore(t, id[t])
  /\ lastWrite' = Put(lastWrite, id[t], [by |-> "Update", val |-> Load(item[t])])
  /\ UNCHANGED <<nextID, itemMux, method, id, result, panicking, resp,
                 storeOp, issued, deleted>>
  /\ Touch(t)

\* _, exists := s.data[id]; if !exists { return false }
UpdateLookup(t) ==
  /\ pc[t] = "u_look"
  /\ UNCHANGED <<reqVars, seqVars>>
  /\ IF id[t] \in DOMAIN data
     THEN /\ pc' = Set(pc, t, "u_store")
          /\ UNCHANGED ret
     ELSE /\ pc' = Set(pc, t, "u_ret")
          /\ ret' = Set(ret, t, FALSE)
  /\ UNCHANGED <<storeVars, method, id, item, result, panicking, resp, storeOp,
                 issued, deleted, lastWrite>>
  /\ Touch(t)

\* An Update that copies the new record into the Item the entry refers to:
\* whoever holds that Item sees the new record.
UpdateStoreInPlace(t) ==
  /\ pc[t] = "u_store"
  /\ UNCHANGED <<reqVars, seqVars>>
  /\ data' = Put(data, id[t], Load(item[t]))
  /\ item' = item
  /\ lastWrite' = Put(lastWrite, id[t], [by |-> "Update", val |-> Load(item[t])])
  /\ ret' = Set(ret, t, TRUE)
  /\ pc' = Set(pc, t, "u_ret")
  /\ UNCHANGED <<nextID, itemMux, method, id, result, panicking, resp,
                 storeOp, issued, deleted>>
  /\ Touch(t)

\* s.data[id] = updatedItem; return true
UpdateStore(t) ==
  /\ pc[t] = "u_store"
  /\ UNCHANGED <<reqVars, seqVars>>
  /\ data' = Put(data, id[t], Load(item[t]))
  /\ item' = AfterStore(t, id[t])
  /\ lastWrite' = Put(lastWrite, id[t], [by |-> "Update", val |-> Load(item[t])])
  /\ ret' = Set(ret, t, TRUE)
  /\ pc' = Set(pc, t, "u_ret")
  /\ UNCHANGED <<nextID, itemMux, method, id, result, panicking, resp,
                 storeOp, issued, deleted>>
  /\ Touch(t)

\* The deferred Unlock.
UpdateReturn(t) ==
  /\ pc[t] = "u_ret"
  /\ expect' = Set(expect, t, NoExpect)
  /\ UNCHANGED <<seq, reqVars>>
  /\ itemMux' = FALSE
  /\ pc' = Set(pc, t, "put_respond")
  /\ UNCHANGED <<data, nextID, method, id, item, ret, result, panicking, resp,
                 histVars>>

\* A handler that answers PUT with what the store holds for the id.
PutRespondRefetch(t) ==
  /\ pc[t] = "put_respond"
  /\ UNCHANGED <<reqVars, seqVars>>
  /\ Finish(t, IF ret[t]
               THEN WriteBody(SetContentType(NewResponse, JSONType),
                              EncodeItem(IF id[t] \in DOMAIN data
                                         THEN data[id[t]] ELSE ZeroItem))
               ELSE HttpError(NewResponse, "Item not found", StatusNotFound))
  /\ UNCHANGED <<storeVars, mutated, issued, deleted, lastWrite>>

\* The handler's answer to PUT: the submitted Item encoded, or 404.
PutRespond(t) ==
  /\ pc[t] = "put_respond"
  /\ UNCHANGED <<reqVars, seqVars>>
  /\ Finish(t, IF ret[t]
               THEN WriteBody(SetContentType(NewResponse, JSONType),
                              EncodeItem(Load(item[t])))
               ELSE HttpError(NewResponse, "Item not found", StatusNotFound))
  /\ UNCHANGED <<storeVars, mutated, issued, deleted, lastWrite>>

\* ----------------------------------------------------------- Store.Delete
DeleteLock(t) ==
  /\ pc[t] = "d_lock"
  /\ seq' = SeqDelete(seq, id[t])
  /\ expect' = Set(expect, t, ExpectFound(seq, id[t]))
  /\ UNCHANGED reqVars
  /\ CanLock
  /\ itemMux' = TRUE
  /\ pc' = Set(pc, t, "d_look")
  /\ UNCHANGED <<data, nextID, method, id, item, ret, result, panicking, resp,
                 histVars>>

\* _, exists := s.data[id]; if !exists { return false }
DeleteLookup(t) ==
  /\ pc[t] = "d_look"
  /\ UNCHANGED <<reqVars, seqVars>>
  /\ IF id[t] \in DOMAIN data
     THEN /\ pc' = Set(pc, t, "d_remove")
          /\ UNCHANGED ret
     ELSE /\ pc' = Set(pc, t, "d_ret")
          /\ ret' = Set(ret, t, FALSE)
  /\ UNCHANGED <<storeVars, method, id, item, result, panicking, resp, storeOp,
                 issued, deleted, lastWrite>>
  /\ Touch(t)

\* What delete(s.data, k) leaves of the map d.
WithoutKept(d, k) == d
WithoutAll(d, k) == << >>
Without(d, k) == Remove(d, k)

\* delete(s.data, id); return true
DeleteRemove(t) ==
  /\ pc[t] = "d_remove"
  /\ UNCHANGED <<reqVars, seqVars>>
  /\ data' = Without(data, id[t])
  /\ item' = IF id[t] \in DOMAIN data' THEN item ELSE AfterRemove(id[t])
  /\ lastWrite' = Remove(lastWrite, id[t])
  /\ deleted' = deleted \cup {id[t]}
  /\ ret' = Set(ret, t, TRUE)
  /\ pc' = Set(pc, t, "d_ret")
  /\ UNCHANGED <<nextID, itemMux, method, id, result, panicking, resp,
                 storeOp, issued>>
  /\ Touch(t)

\* The deferred Unlock, then the handler's answer: 204 or 404.
DeleteReturn(t) ==
  /\ pc[t] = "d_ret"
  /\ expect' = Set(expect, t, NoExpect)
  /\ UNCHANGED <<seq, reqVars>>
  /\ itemMux' = FALSE
  /\ Finish(t, IF ret[t] THEN WriteHeader(NewResponse, StatusNoContent)
               ELSE HttpError(NewResponse, "Item not found", StatusNotFound))
  /\ UNCHANGED <<data, nextID, mutated, issued, deleted, lastWrite>>

\* ---------------------------------------------------------- specification
Next ==
  \E t \in Threads :
    \/ HandlePost(t) \/ HandleGet(t) \/ HandlePut(t) \/ HandleDelete(t)
    \/ HandleOther(t)
    \/ CreateLock(t) \/ CreateAssign(t) \/ CreateInc(t) \/ CreateStore(t)
    \/ CreateReturn(t) \/ PostRespond(t)
    \/ GetLock(t) \/ GetBody(t) \/ GetReturn(t)
    \/ GetAllLock(t) \/ GetAllBody(t) \/ GetAllReturn(t)
    \/ UpdateLock(t) \/ UpdateLookup(t) \/ UpdateStore(t) \/ UpdateReturn(t)
    \/ PutRespond(t)
    \/ DeleteLock(t) \/ DeleteLookup(t) \/ DeleteRemove(t) \/ DeleteReturn(t)

Spec == Init /\ [][Next]_vars

\* A goroutine's call of s.itemMux.Lock(), in whichever Store method.
Acquire(t) ==
  \/ CreateLock(t) \/ GetLock(t) \/ GetAllLock(t) \/ UpdateLock(t) \/ DeleteLock(t)
\* A goroutine's steps after its handler began, other than taking the lock.
Proceed(t) ==
  \/ CreateAssign(t) \/ CreateInc(t) \/ CreateStore(t) \/ CreateReturn(t)
  \/ PostRespond(t)
  \/ GetBody(t) \/ GetReturn(t)
  \/ GetAllBody(t) \/ GetAllReturn(t)
  \/ UpdateLookup(t) \/ UpdateStore(t) \/ UpdateReturn(t) \/ PutRespond(t)
  \/ DeleteLookup(t) \/ DeleteRemove(t) \/ DeleteReturn(t)
\* The scheduler runs every runnable goroutine, and sync.Mutex hands the
\* lock to a goroutine that has waited long for it (starvation mode), so a
\* waiter is not passed over for ever. Requests arrive or not as they will.
Fairness ==
  \A t \in Threads : WF_vars(Proceed(t)) /\ SF_vars(Acquire(t))
SpecFair == Spec /\ Fairness

TypeOK ==
  /\ DOMAIN data \subseteq 1..MaxCreates
  /\ nextID \in 1..(MaxCreates + 1)
  /\ itemMux \in BOOLEAN
  /\ \A t \in Threads : item[t].at = "map" => item[t].key \in DOMAIN data
  /\ \A t \in Threads :
       idArg[t] \in {"unread", "absent", "empty", "malformed", "nonpos", "pos"}
  /\ DOMAIN seq.data \subseteq 1..MaxCreates
  /\ seq.nextID \in 1..(MaxCreates + 1)

\* ------------------------------------------------------------- properties
\* Goroutines inside Create that hold an assigned id.
AssignedPcs == {"c_inc", "c_store", "c_ret"}
IssuedSet == {issued[i] : i \in 1..Len(issued)}

\* C1: the IDs returned by successive Create calls are strictly increasing,
\* so none is returned twice, also not after its record was deleted.
C1_IDsStrictlyIncreasing ==
  \A i, j \in 1..Len(issued) : i < j => issued[i] < issued[j]

\* A Create is about to return ID 2 after the record with ID 1 was deleted.
C1_Witness ==
  \E t \in Threads :
    /\ pc[t] = "c_ret"
    /\ Load(item[t]).ID = 2
    /\ issued = <<1>>
    /\ deleted = {1}

\* C2: under every interleaving, no two Create calls are assigned the same
\* ID, and once no Create is between its insert and its return the store
\* holds one entry per Create call (less the entries deleted since).
C2_ConcurrentCreateDistinct ==
  /\ \A t1, t2 \in Threads :
       (t1 # t2 /\ pc[t1] \in AssignedPcs \cup {"post_respond"}
                /\ pc[t2] \in AssignedPcs \cup {"post_respond"}) => id[t1] # id[t2]
  /\ \A t \in Threads : pc[t] \in AssignedPcs => id[t] \notin IssuedSet
  /\ Cardinality(IssuedSet) = Len(issued)
  /\ (\A t \in Threads : pc[t] # "c_ret") =>
       Cardinality(DOMAIN data) = Len(issued) - Cardinality(deleted)

\* Two Create calls overlap: one has inserted its record and holds the
\* lock, the other waits in Lock.
C2_Witness ==
  \E t1, t2 \in Threads :
    /\ pc[t1] = "c_ret"
    /\ pc[t2] = "c_lock"
    /\ id[t1] = 1
    /\ 1 \in DOMAIN data

\* C3: a Get of an id whose record was last written by Create returns true
\* with the record Create stored, carrying that id.
C3_CreateThenGet ==
  \A t \in Threads :
    (pc[t] = "g_ret" /\ id[t] \in DOMAIN lastWrite /\ lastWrite[id[t]].by = "Create") =>
      /\ ~panicking[t]
      /\ ret[t]
      /\ result[t].val = lastWrite[id[t]].val
      /\ result[t].val.ID = id[t]

\* C4: Update on a present id returns true and the map then holds exactly
\* the submitted record, on an absent id it returns false, and a Get of an
\* id last written by Update returns true with that record.
C4_UpdateThenGet ==
  \A t \in Threads :
    /\ (pc[t] = "u_ret" /\ ret[t]) => data[id[t]] = Load(item[t])
    /\ (pc[t] = "u_ret" /\ ~ret[t]) => id[t] \notin DOMAIN data
    /\ (pc[t] = "g_ret" /\ id[t] \in DOMAIN lastWrite /\ lastWrite[id[t]].by = "Update") =>
         /\ ~panicking[t]
         /\ ret[t]
         /\ result[t].val = lastWrite[id[t]].val

\* C5: an id removed by a successful Delete is never a key again, so a Get
\* of it returns false, and no later Delete of it gets to remove anything
\* (Delete returns true only after removing).
C5_DeletedStaysAbsent ==
  /\ deleted \cap DOMAIN data = {}
  /\ \A t \in Threads :
       /\ (pc[t] = "g_ret" /\ id[t] \in deleted) => (~ret[t] /\ ~panicking[t])
       /\ (pc[t] = "d_look" => ~ret[t])
       /\ (pc[t] = "d_remove" => id[t] \notin deleted)
       /\ (pc[t] = "d_ret" /\ ret[t]) => mutated[t]

\* A second Delete of id 1 returns false, after a later Create.
C5_Witness ==
  \E t \in Threads :
    /\ pc[t] = "d_ret"
    /\ ~ret[t]
    /\ ~mutated[t]
    /\ id[t] = 1
    /\ 1 \in deleted
    /\ 2 \in DOMAIN data

\* C6: GetAll returns exactly N - M records, one per id in the store, each
\* the value last written for that id.
C6_GetAllCount ==
  \A t \in Threads :
    pc[t] = "ga_ret" =>
      /\ ~panicking[t]
      /\ Len(result[t].elems) = Len(issued) - Cardinality(deleted)
      /\ \E o \in Orders(DOMAIN data) :
           result[t].elems = [i \in DOMAIN o |-> lastWrite[o[i]].val]

\* C7: a request answered 400 or 404 has changed neither the mapping nor
\* nextID.
C7_RejectedLeavesStore ==
  \A t \in Threads :
    (pc[t] = "done" /\ resp[t].status \in {StatusBadRequest, StatusNotFound}) =>
      ~mutated[t]

\* A POST rejected with 400 and a PUT rejected with 404, on a store that
\* holds a record.
C7_Witness ==
  \E t1, t2 \in Threads :
    /\ pc[t1] = "done" /\ method[t1] = "POST" /\ resp[t1].status = StatusBadRequest
    /\ pc[t2] = "done" /\ method[t2] = "PUT" /\ resp[t2].status = StatusNotFound
    /\ DOMAIN data # {}
    /\ nextID = 2

\* C8: a request with any other method is answered 405 at once, calls no
\* Store method and changes neither the mapping nor nextID.
C8_OtherMethod405 ==
  \A t \in Threads :
    method[t] \notin {"", "POST", "GET", "PUT", "DELETE"} =>
      /\ pc[t] = "done"
      /\ resp[t].status = StatusMethodNotAllowed
      /\ storeOp[t] = "none"
      /\ ~mutated[t]

\* A PATCH was answered on a store that holds a record.
C8_Witness ==
  \E t \in Threads :
    /\ method[t] = "PATCH"
    /\ resp[t].status = StatusMethodNotAllowed
    /\ DOMAIN data # {}

\* C9: a GET without id whose GetAll ran on an empty map is answered 200
\* with an empty JSON array.
C9_EmptyArray ==
  [][\A t \in Threads :
       (pc[t] = "ga_ret" /\ DOMAIN data = {} /\ pc'[t] = "done") =>
         /\ resp'[t].status = StatusOK
         /\ resp'[t].body = [kind |-> "array", elems |-> <<>>]]_vars

\* C10: every response with a JSON body has Content-Type application/json.
C10_JSONContentType ==
  \A t \in Threads :
    (pc[t] = "done" /\ resp[t].body.kind \in {"object", "array", "null"}) =>
      resp[t].ctype = JSONType
\* C11: a PUT that succeeds answers 200 with the record exactly as its body
\* submitted it, whatever the store holds for the id by then, and when
\* Update returns true the map holds that submitted record under the id.
C11_PutEchoesSubmitted ==
  \A t \in Threads :
    /\ (pc[t] = "u_ret" /\ ret[t]) =>
         /\ id[t] \in DOMAIN data
         /\ data[id[t]] = sent[t]
    /\ (pc[t] = "put_respond" /\ ret[t]) => Load(item[t]) = sent[t]
    /\ (pc[t] = "done" /\ method[t] = "PUT" /\ storeOp[t] = "Update"
          /\ resp[t].status # StatusNotFound) =>
         /\ resp[t].status = StatusOK
         /\ resp[t].body = EncodeItem(sent[t])
\* A PUT was answered 200 although the store no longer holds what it wrote.
C11_Witness ==
  \E t \in Threads :
    /\ pc[t] = "done" /\ method[t] = "PUT" /\ resp[t].status = StatusOK
    /\ resp[t].body = EncodeItem(sent[t])
    /\ \A k \in DOMAIN data : data[k] # sent[t]

\* Create calls that have incremented nextID: those that returned and those
\* past s.nextID++.
Incremented ==
  Len(issued) + Cardinality({t \in Threads : pc[t] \in {"c_store", "c_ret"}})
\* C12: nextID is at least 1 and above every ID Create returned and every
\* key of the map; it starts at 1 and counts the Creates (1 plus the number
\* of increments so far), and a step either leaves it or adds exactly 1,
\* which only the s.nextID++ of a Create does.
C12_NextIDAboveAll ==
  /\ [](/\ nextID >= 1
        /\ \A i \in IssuedSet : i < nextID
        /\ \A k \in DOMAIN data : k < nextID
        /\ nextID = 1 + Incremented)
  /\ [][\/ nextID' = nextID
        \/ /\ nextID' = nextID + 1
           /\ \E t \in Threads : pc[t] = "c_inc" /\ pc'[t] = "c_store"]_vars
\* Two Creates returned, and the larger ID has been deleted since: nextID
\* stays above it.
C12_Witness ==
  /\ nextID = 3
  /\ IssuedSet = {1, 2}
  /\ DOMAIN data = {1}
  /\ 2 \in deleted

\* C13: an id Create has returned is a key of the map unless a Delete of
\* that id has removed it since: no other call takes it out.
C13_IssuedStaysUntilDeleted ==
  IssuedSet \subseteq (DOMAIN data \cup deleted)
\* Id 1 is still a key after an Update of it and a Delete of id 2.
C13_Witness ==
  /\ 1 \in IssuedSet /\ 1 \in DOMAIN data
  /\ lastWrite[1].by = "Update"
  /\ 2 \in deleted
  /\ \E t \in Threads : pc[t] = "done" /\ storeOp[t] = "GetAll"

\* Where a goroutine is between s.itemMux.Lock() and the deferred Unlock of
\* a Store method.
BodyPcs ==
  {"c_id", "c_inc", "c_store", "c_ret", "g_body", "g_ret", "ga_body", "ga_ret",
   "u_look", "u_store", "u_ret", "d_look", "d_remove", "d_ret"}
InBody == {t \in Threads : pc[t] \in BodyPcs}

\* C14: at most one goroutine is inside the body of a Store method at any
\* time, whichever methods they are, two reads included.
C14_OneInBody ==
  Cardinality(InBody) <= 1
\* A read is inside its body while another read waits for the lock.
C14_Witness ==
  \E t, u \in Threads :
    /\ pc[t] \in {"g_body", "ga_body"}
    /\ pc[u] \in {"g_lock", "ga_lock"}

\* C15: a Get or GetAll call changes neither the map nor nextID, whether
\* the id is found or not: the goroutine's steps inside the call leave
\* both as they were.
C15_ReadsLeaveStore ==
  \A t \in Threads : storeOp[t] \in {"Get", "GetAll"} => ~mutated[t]
\* A Get has run its body on an id the map holds, and a GetAll on a map
\* that is not empty.
C15_Witness ==
  /\ \E t \in Threads : pc[t] = "g_ret" /\ id[t] \in DOMAIN data
  /\ \E t \in Threads : pc[t] = "done" /\ storeOp[t] = "GetAll" /\ ~mutated[t]
  /\ data # << >>

\* C16: the concurrent run matches the run that performs each Store call in
\* one step, in the order the calls take the lock: whenever no call is
\* inside its body the map and nextID are that run's, and every call
\* returns what that run's call returns.
C16_SequentialInLockOrder ==
  /\ InBody = {} => (data = seq.data /\ nextID = seq.nextID)
  /\ \A t \in Threads :
       /\ pc[t] = "c_ret" => Load(item[t]) = expect[t].val
       /\ pc[t] = "g_ret" =>
            /\ panicking[t] = expect[t].panic
            /\ ret[t] = expect[t].ret
            /\ ret[t] => result[t].val = expect[t].val
       /\ pc[t] = "ga_ret" =>
            /\ panicking[t] = expect[t].panic
            /\ ~panicking[t] => result[t].elems = << >>
       /\ pc[t] \in {"u_ret", "d_ret"} => ret[t] = expect[t].ret
\* An Update is about to return false for an id that a Delete, which took
\* the lock before it, has removed while the Update waited.
C16_Witness ==
  \E t \in Threads :
    /\ pc[t] = "u_ret" /\ ~ret[t] /\ ~expect[t].ret
    /\ id[t] \in deleted
    /\ \E u \in Threads : u # t /\ pc[u] = "done" /\ storeOp[u] = "Delete"
          /\ resp[u].status = StatusNoContent

\* A request whose handler has begun and not yet ended.
Busy(t) == pc[t] \notin {"idle", "done"}
\* The handler has ended and the client got a response.
Answered(t) == pc[t] = "done" /\ resp[t].status # NoStatus
\* C17: the lock is held only while some Store method is in its body, so no
\* path out of a method leaves it held; and under fair scheduling every
\* request whose handler began is answered.
C17_LockReleasedRequestsAnswered ==
  /\ [](itemMux <=> InBody # {})
  /\ \A t \in Threads : Busy(t) ~> Answered(t)
\* What does hold of every request under fair scheduling: its handler ends,
\* with the lock released, a panic inside Get or GetAll included.
HandlerEnds ==
  \A t \in Threads : Busy(t) ~> (pc[t] = "done")

\* C18: a record that Create stored last has its key in its ID field, so
\* without Update every record's ID equals its key; a record whose ID
\* differs from its key was stored by Update, and an Update that returns
\* true leaves the ID equal to the key exactly when the submitted record's
\* ID equals the id argument.
C18_IDEqualsKeyButForUpdate ==
  /\ \A k \in DOMAIN data :
       /\ lastWrite[k].by = "Create" => data[k].ID = k
       /\ data[k].ID # k => lastWrite[k].by = "Update"
  /\ \A t \in Threads :
       (pc[t] = "u_ret" /\ ret[t]) =>
         /\ id[t] \in DOMAIN data
         /\ (data[id[t]].ID = id[t]) <=> (sent[t].ID = id[t])
\* A PUT whose body has no id left ID 0 under key 1, beside a record that
\* Create stored under key 2 with ID 2 although its body said otherwise or
\* nothing.
C18_Witness ==
  /\ DOMAIN data = {1, 2}
  /\ data[1].ID = 0 /\ lastWrite[1].by = "Update"
  /\ data[2].ID = 2 /\ lastWrite[2].by = "Create"

\* C19: an Item in the map is as the call that inserted it left it, and
\* what a handler encodes once its Store call has returned is the record
\* that request wrote: for POST the decoded body with the assigned ID, for
\* PUT the decoded body, whatever other requests did to the id meanwhile.
C19_EncodesOwnWrite ==
  /\ \A k \in DOMAIN data : data[k] = lastWrite[k].val
  /\ \A t \in Threads :
       /\ pc[t] = "post_respond" =>
            Load(item[t]) = [sent[t] EXCEPT !.ID = id[t]]
       /\ (pc[t] = "put_respond" /\ ret[t]) => Load(item[t]) = sent[t]
       /\ (pc[t] = "done" /\ resp[t].status = StatusCreated) =>
            \E i \in IssuedSet : resp[t].body = EncodeItem([sent[t] EXCEPT !.ID = i])
       /\ (pc[t] = "done" /\ method[t] = "PUT" /\ resp[t].status = StatusOK) =>
            resp[t].body = EncodeItem(sent[t])
\* A POST is about to encode its Item after a PUT has put another record
\* under its id, and that PUT is about to encode its own.
C19_Witness ==
  /\ \E t \in Threads :
       /\ pc[t] = "post_respond" /\ item[t].at = "own"
       /\ id[t] \in DOMAIN data /\ lastWrite[id[t]].by = "Update"
       /\ data[id[t]] # Load(item[t])
  /\ \E t \in Threads :
       /\ pc[t] = "put_respond" /\ ret[t] /\ item[t].at = "map"

\* C20: a GET whose id parameter is empty is handled as one without the
\* parameter, by GetAll, and answered 200; a PUT or DELETE whose id is
\* empty or missing is answered 400 without a Store call; an id that parses
\* as zero or a negative integer passes the parse, and the request is
\* answered 404 (a PUT, if its body decodes).
C20_IdParameter ==
  \A t \in Threads :
    pc[t] = "done" =>
      /\ (method[t] = "GET" /\ idArg[t] \in {"absent", "empty"}) =>
           /\ storeOp[t] = "GetAll"
           /\ resp[t].status = StatusOK
      /\ (method[t] \in {"PUT", "DELETE"} /\ idArg[t] \in {"absent", "empty"}) =>
           /\ storeOp[t] = "none"
           /\ resp[t].status = StatusBadRequest
      /\ idArg[t] = "nonpos" =>
           /\ method[t] \in {"GET", "DELETE"} => storeOp[t] # "none"
           /\ storeOp[t] # "none" => resp[t].status = StatusNotFound
           /\ storeOp[t] = "none" =>
                resp[t] = HttpError(NewResponse, "Invalid request payload",
                                    StatusBadRequest)

====
